---- MODULE Spec2Model ----
(***************************************************************************)
(* MusicSubscription (src/src/Subscription.ts): one voice connection, one  *)
(* audio player and a FIFO queue of Tracks (src/src/Track.ts).             *)
(*                                                                         *)
(* The subscription is driven by three event sources: the caller           *)
(* (enqueue, stop), the audio player's stateChange / error events and the  *)
(* voice connection's stateChange events together with the timers the      *)
(* connection handler awaits.  Every handler runs to its first await       *)
(* without interleaving, so each action below is one handler run, with     *)
(* everything it calls synchronously.                                      *)
(***************************************************************************)
EXTENDS Integers, Sequences, FiniteSets, TLC

\* ------------------------------------------------------------------ bounds
\* Number of Tracks the caller creates and enqueues.
MaxTracks == 3
\* Number of times the player is auto-paused for want of a ready connection.
MaxPauses == 1
\* Number of Disconnected state changes the connection reports.
MaxDisconnects == 1
\* Number of stop() calls the caller makes.
MaxStops == 2

\* --------------------------------------------------------------- constants
\* The close code singled out by the connection handler.
KickCode == 4014
\* Another WebSocket close code (any code other than 4014).
OtherCode == KickCode + 1
\* entersState(voiceConnection, Connecting, 5_000)
GraceMs == 5000
\* wait((rejoinAttempts + 1) * 5_000)
BackoffUnitMs == 5000
\* rejoinAttempts < 5
MaxRejoinAttempts == 5
\* entersState(voiceConnection, Ready, 20_000)
ReadyBoundMs == 20000
\* Granularity of the clock: every timer length is a multiple of it.
TickMs == GraceMs

VARIABLES
    queue,          \* this.queue: sequence of Tracks
    queueLock,      \* this.queueLock
    player,         \* this.audioPlayer.state: [status, resource]
    readyLock,      \* this.readyLock
    conn,           \* this.voiceConnection.state: [status, reason, closeCode]
    rejoinAttempts, \* this.voiceConnection.rejoinAttempts
    waits,          \* connection handlers suspended at an await
    emitted,        \* history: notifications emitted by the subscription
    handoffs,       \* history: audioPlayer.play calls that returned normally
    calls,          \* history: rejoin() / destroy() calls issued by the handler
    nextRef,        \* next request context handed out by the caller
    pauses,         \* number of auto-pauses so far
    disconnects,    \* number of Disconnected state changes so far
    stopCalls,      \* history: number of stop() calls
    sinceStop       \* history: stop() was called and no enqueue since

vars == <<queue, queueLock, player, readyLock, conn, rejoinAttempts, waits,
          emitted, handoffs, calls, nextRef, pauses, disconnects, stopCalls,
          sinceStop>>

\* ------------------------------------------------------------------ Tracks
\* `undefined`, as a request context.
UndefinedRef == 0

\* Track.audioResource before it is assigned.
NoResource == [kind |-> "undefined", reference |-> UndefinedRef, ended |-> FALSE]

\* createAudioResource(probe.stream, {metadata: {reference: this.reference, details}})
createAudioResource(reference, ended) ==
    [kind |-> "resource", reference |-> reference, ended |-> ended]

\* new Track(query, reference): the resource is not assigned yet.
NewTrack(reference) == [reference |-> reference, audioResource |-> NoResource]

\* Track.create(query, reference)
TrackCreate(reference, ended) ==
    [NewTrack(reference) EXCEPT !.audioResource = createAudioResource(reference, ended)]

\* The Tracks a caller can pass to enqueue: a created Track whose stream is
\* live, one whose stream has already ended, and one whose audioResource is
\* still undefined.
TracksFor(reference) ==
    { TrackCreate(reference, FALSE), TrackCreate(reference, TRUE), NewTrack(reference) }

\* ------------------------------------------------------------ audio player
IdleState == [status |-> "Idle", resource |-> NoResource]

\* The session state the synchronous code works on.
Cur == [queue |-> queue, queueLock |-> queueLock, player |-> player,
        emitted |-> emitted, handoffs |-> handoffs,
        stopCalls |-> stopCalls, sinceStop |-> sinceStop]

\* this.emit(name, reference, ...); `item` records whose notification it is.
Emit(s, name, reference, item) ==
    [s EXCEPT !.emitted = Append(@, [name |-> name, reference |-> reference, item |-> item])]

\* audioPlayer.play throws: the resource is undefined (reading .ended of
\* undefined) or has already ended.
PlayThrows(resource) == resource.kind = "undefined" \/ resource.ended

\* processQueue's early return.
DrainBlocked_NoIdleCheck(s) == s.queueLock \/ Len(s.queue) = 0

DrainBlocked_OnlyPlaying(s) ==
    s.queueLock \/ s.player.status = "Playing" \/ Len(s.queue) = 0

DrainBlocked(s) ==
    s.queueLock \/ s.player.status # "Idle" \/ Len(s.queue) = 0

\* nextTrack.audioResource?.metadata.reference
ErrorReference(nextTrack) ==
    IF nextTrack.audioResource.kind = "undefined" THEN UndefinedRef
    ELSE nextTrack.audioResource.reference

RECURSIVE processQueue(_)

\* The audio player's stateChange listener.
OnPlayerStateChange_NoDrain(s, oldState, newState) ==
    IF newState.status = "Idle" /\ oldState.status # "Idle"
    THEN Emit(s, "songEnded", oldState.resource.reference, oldState.resource.reference)
    ELSE IF newState.status = "Playing"
    THEN Emit(s, "songStarted", newState.resource.reference, newState.resource.reference)
    ELSE s

OnPlayerStateChange(s, oldState, newState) ==
    IF newState.status = "Idle" /\ oldState.status # "Idle"
    THEN processQueue(Emit(s, "songEnded", oldState.resource.reference,
                           oldState.resource.reference))
    ELSE IF newState.status = "Playing"
    THEN Emit(s, "songStarted", newState.resource.reference, newState.resource.reference)
    ELSE s

\* The audio player's error listener: the error carries the resource that was
\* playing.
OnPlayerError(s, resource) ==
    Emit(s, "criticalError", resource.reference, resource.reference)

\* The player's state setter: assigns the state, then emits stateChange.
SetPlayerState(s, newState) ==
    OnPlayerStateChange([s EXCEPT !.player = newState], s.player, newState)

\* audioPlayer.play(resource) for a resource it accepts: the player starts
\* buffering it.
Play(s, resource) ==
    SetPlayerState(
        [s EXCEPT !.handoffs = Append(@, [item |-> resource.reference,
                                          before |-> s.player.status])],
        [status |-> "Buffering", resource |-> resource])

\* What processQueue does after a failed hand-off.
AfterFailure_NoRetry(s) == s

AfterFailure_KeepLock(s) == processQueue([s EXCEPT !.queueLock = TRUE])

AfterFailure(s) == processQueue(s)

processQueue(s) ==
    IF DrainBlocked(s) THEN s
    ELSE LET nextTrack == Head(s.queue)
             taken == [s EXCEPT !.queueLock = TRUE, !.queue = Tail(@)]
         IN IF PlayThrows(nextTrack.audioResource)
            THEN AfterFailure(
                   [Emit(taken, "playingError", ErrorReference(nextTrack),
                         nextTrack.reference)
                      EXCEPT !.queueLock = FALSE])
            ELSE [Play(taken, nextTrack.audioResource) EXCEPT !.queueLock = FALSE]

\* MusicSubscription.enqueue
enqueue_Front(s, track) ==
    processQueue([s EXCEPT !.queue = <<track>> \o @, !.sinceStop = FALSE])

enqueue(s, track) ==
    processQueue([s EXCEPT !.queue = Append(@, track), !.sinceStop = FALSE])

\* audioPlayer.stop(force): nothing when idle; forced, the player goes idle at
\* once; unforced, it keeps its state while the resource plays out its
\* silence padding.
PlayerStop(s, force) ==
    IF s.player.status = "Idle" THEN s
    ELSE IF force THEN SetPlayerState(s, IdleState)
    ELSE s

\* MusicSubscription.stop
stop_Unforced(s) ==
    PlayerStop([s EXCEPT !.queueLock = TRUE, !.queue = <<>>,
                         !.stopCalls = @ + 1, !.sinceStop = TRUE], FALSE)

stop_ToggleLock(s) ==
    PlayerStop([s EXCEPT !.queueLock = ~@, !.queue = <<>>,
                         !.stopCalls = @ + 1, !.sinceStop = TRUE], TRUE)

stop(s) ==
    PlayerStop([s EXCEPT !.queueLock = TRUE, !.queue = <<>>,
                         !.stopCalls = @ + 1, !.sinceStop = TRUE], TRUE)

\* -------------------------------------------------------- voice connection
\* The supervisor state the synchronous code works on; sess is the session.
CurAll == [sess |-> Cur, conn |-> conn, rejoinAttempts |-> rejoinAttempts,
           readyLock |-> readyLock, waits |-> waits, calls |-> calls,
           disconnects |-> disconnects]

ConnState(status) == [status |-> status, reason |-> "None", closeCode |-> 0]

DisconnectedState(reason, closeCode) ==
    [status |-> "Disconnected", reason |-> reason, closeCode |-> closeCode]

\* The Disconnected states the connection reports.
DisconnectedStates ==
    { DisconnectedState("WebSocketClose", KickCode),
      DisconnectedState("WebSocketClose", OtherCode),
      DisconnectedState("AdapterUnavailable", 0) }

\* The rejoin-attempt counter of a handler run that does not read it.
NotRead == -1

\* A handler suspended at an await: kind is the await, dur its length, left
\* the time to its expiry, n the rejoin-attempt counter the handler read and
\* cause the state change it handles.
Wait(kind, dur, n, cause) ==
    [kind |-> kind, dur |-> dur, left |-> dur, n |-> n, cause |-> cause]

\* (this.voiceConnection.rejoinAttempts + 1) * 5_000
BackoffMs_Constant(n) == BackoffUnitMs

BackoffMs(n) == (n + 1) * BackoffUnitMs

\* newState.reason === WebSocketClose && newState.closeCode === 4014
IsKick(newState) ==
    newState.reason = "WebSocketClose" /\ newState.closeCode = KickCode

\* this.voiceConnection.rejoinAttempts < 5
MayRejoin(n) == n < MaxRejoinAttempts

\* Records a rejoin() or destroy() call: the branch issuing it (src), the
\* connection status it is issued in, and of the handler run issuing it the
\* time it waited, the rejoin-attempt counter it read and the state change
\* it handles.
LogCall(c, op, src, w) ==
    [c EXCEPT !.calls = Append(@, [op |-> op, src |-> src, status |-> c.conn.status,
                                   waited |-> w.dur - w.left, n |-> w.n,
                                   cause |-> w.cause])]

RemoveAt(seq, i) == SubSeq(seq, 1, i - 1) \o SubSeq(seq, i + 1, Len(seq))

RECURSIVE SelectKind(_, _)
\* The waits of seq that are not of the given kind.
SelectKind(seq, kind) ==
    IF seq = <<>> THEN <<>>
    ELSE IF Head(seq).kind = kind THEN SelectKind(Tail(seq), kind)
    ELSE <<Head(seq)>> \o SelectKind(Tail(seq), kind)

RECURSIVE Destroy(_, _, _)

\* The handler's Destroyed branch: this.stop().
OnDestroyed_NoStop(c) == c

OnDestroyed(c) == [c EXCEPT !.sess = stop(@)]

\* The ready-guard branch's condition: the lock is free and the connection
\* entered Connecting or Signalling.
StartsReadyBound_Unguarded(c, newState) ==
    newState.status \in {"Connecting", "Signalling"}

StartsReadyBound(c, newState) ==
    ~c.readyLock /\ newState.status \in {"Connecting", "Signalling"}

\* The voice connection's stateChange listener, up to its first await.
OnConnStateChange(c, newState) ==
    IF newState.status = "Disconnected"
    THEN IF IsKick(newState)
         THEN [c EXCEPT !.waits = Append(@, Wait("grace", GraceMs, NotRead, newState))]
         ELSE IF MayRejoin(c.rejoinAttempts)
         THEN [c EXCEPT !.waits = Append(@, Wait("backoff", BackoffMs(c.rejoinAttempts),
                                                 c.rejoinAttempts, newState))]
         ELSE Destroy(c, "giveup", Wait("none", 0, c.rejoinAttempts, newState))
    ELSE IF newState.status = "Destroyed"
    THEN OnDestroyed(c)
    ELSE IF StartsReadyBound(c, newState)
    THEN [c EXCEPT !.readyLock = TRUE,
                   !.waits = Append(@, Wait("ready", ReadyBoundMs, NotRead, newState))]
    ELSE c

\* entersState's awaits that a change of status resolves: the handler waiting
\* for Connecting returns; the one waiting for Ready releases readyLock.
ResolveWaits_KeepLock(c, oldState, newState) ==
    IF oldState.status = newState.status THEN c
    ELSE IF newState.status = "Connecting"
    THEN [c EXCEPT !.waits = SelectKind(@, "grace")]
    ELSE IF newState.status = "Ready"
    THEN [c EXCEPT !.waits = SelectKind(@, "ready")]
    ELSE c

ResolveWaits(c, oldState, newState) ==
    IF oldState.status = newState.status THEN c
    ELSE IF newState.status = "Connecting"
    THEN [c EXCEPT !.waits = SelectKind(@, "grace")]
    ELSE IF newState.status = "Ready" /\ \E i \in 1..Len(c.waits) : c.waits[i].kind = "ready"
    THEN [c EXCEPT !.waits = SelectKind(@, "ready"), !.readyLock = FALSE]
    ELSE c

\* The connection's state setter: assigns the state (Ready resets the
\* rejoin-attempt counter), emits stateChange, then the status event.
SetConnState(c, newState) ==
    ResolveWaits(
        OnConnStateChange(
            [c EXCEPT !.conn = newState,
                      !.rejoinAttempts = IF newState.status = "Ready" THEN 0 ELSE @,
                      !.disconnects = IF newState.status = "Disconnected" THEN @ + 1 ELSE @],
            newState),
        c.conn, newState)

\* voiceConnection.destroy(): throws on a destroyed connection.
Destroy(c, src, w) ==
    LET logged == LogCall(c, "destroy", src, w)
    IN IF c.conn.status = "Destroyed" THEN logged
       ELSE SetConnState(logged, ConnState("Destroyed"))

\* voiceConnection.rejoin(): nothing on a destroyed connection; otherwise it
\* counts the attempt unless Ready and sends the join payload, going to
\* Signalling, or to Disconnected when the adapter cannot send.
Rejoin(c, src, w, sent) ==
    LET logged == LogCall(c, "rejoin", src, w)
        notReady == c.conn.status # "Ready"
        counted == [logged EXCEPT !.rejoinAttempts = IF notReady THEN @ + 1 ELSE @]
    IN IF c.conn.status = "Destroyed" THEN logged
       ELSE IF ~sent
       THEN SetConnState(counted, DisconnectedState("AdapterUnavailable", 0))
       ELSE IF notReady THEN SetConnState(counted, ConnState("Signalling"))
       ELSE counted

\* The handler's continuation when the 5 s wait for Connecting times out.
AfterGrace(c, w) == Destroy(c, "grace", w)

\* The handler's continuation after wait((rejoinAttempts + 1) * 5_000).
AfterBackoff(c, w, sent) == Rejoin(c, "backoff", w, sent)

\* The handler's continuation when the 20 s wait for Ready times out.
AfterReadyBound_Unchecked(c, w) ==
    [Destroy(c, "ready", w) EXCEPT !.readyLock = FALSE]

AfterReadyBound(c, w) ==
    [(IF c.conn.status # "Destroyed"
      THEN Destroy(c, "ready", w)
      ELSE c) EXCEPT !.readyLock = FALSE]

\* ----------------------------------------------------------------- actions
\* Writes a session state back.
Commit(s) ==
    /\ queue' = s.queue
    /\ queueLock' = s.queueLock
    /\ player' = s.player
    /\ emitted' = s.emitted
    /\ handoffs' = s.handoffs
    /\ stopCalls' = s.stopCalls
    /\ sinceStop' = s.sinceStop

\* Writes a supervisor state, and its session, back.
CommitAll(c) ==
    /\ Commit(c.sess)
    /\ conn' = c.conn
    /\ rejoinAttempts' = c.rejoinAttempts
    /\ readyLock' = c.readyLock
    /\ waits' = c.waits
    /\ calls' = c.calls
    /\ disconnects' = c.disconnects

connVars == <<readyLock, conn, rejoinAttempts, waits, calls, disconnects>>
sessVars == <<queue, queueLock, player, emitted, handoffs, stopCalls, sinceStop>>

\* The caller creates a Track and enqueues it.
Enqueue ==
    /\ nextRef <= MaxTracks
    /\ \E track \in TracksFor(nextRef) : Commit(enqueue(Cur, track))
    /\ nextRef' = nextRef + 1
    /\ UNCHANGED <<connVars, pauses>>

\* The caller enqueues a Track that Track.create returned.
EnqueueCreated ==
    /\ nextRef <= MaxTracks
    /\ Commit(enqueue(Cur, TrackCreate(nextRef, FALSE)))
    /\ nextRef' = nextRef + 1
    /\ UNCHANGED <<connVars, pauses>>

\* The caller stops the subscription.
Stop ==
    /\ stopCalls < MaxStops
    /\ Commit(stop(Cur))
    /\ UNCHANGED <<connVars, nextRef, pauses>>

\* The buffering resource becomes readable: the player starts playing it.
PlayerReadable ==
    /\ player.status = "Buffering"
    /\ Commit(SetPlayerState(Cur, [player EXCEPT !.status = "Playing"]))
    /\ UNCHANGED <<connVars, nextRef, pauses>>

\* The buffering resource's stream ends before it is readable.
PlayerBufferFail ==
    /\ player.status = "Buffering"
    /\ Commit(SetPlayerState(Cur, IdleState))
    /\ UNCHANGED <<connVars, nextRef, pauses>>

\* The playing resource ends.
PlayerFinish ==
    /\ player.status = "Playing"
    /\ Commit(SetPlayerState(Cur, IdleState))
    /\ UNCHANGED <<connVars, nextRef, pauses>>

\* The resource's stream errors: the player emits error (the subscription's
\* error listener emits criticalError), then goes idle.
PlayerError ==
    /\ player.status # "Idle"
    /\ Commit(SetPlayerState(OnPlayerError(Cur, player.resource), IdleState))
    /\ UNCHANGED <<connVars, nextRef, pauses>>

\* No subscribed connection can take audio: the playing player pauses itself.
PlayerAutoPause ==
    /\ player.status = "Playing"
    /\ conn.status # "Ready"
    /\ pauses < MaxPauses
    /\ pauses' = pauses + 1
    /\ Commit(SetPlayerState(Cur, [player EXCEPT !.status = "AutoPaused"]))
    /\ UNCHANGED <<connVars, nextRef>>

\* The connection can take audio again: the player resumes.
PlayerAutoResume ==
    /\ player.status = "AutoPaused"
    /\ conn.status = "Ready"
    /\ Commit(SetPlayerState(Cur, [player EXCEPT !.status = "Playing"]))
    /\ UNCHANGED <<connVars, nextRef, pauses>>

\* The state changes the connection makes by itself.
ConnEdges(status) ==
    CASE status = "Signalling" -> {ConnState("Connecting")}
      [] status = "Connecting" -> {ConnState("Ready"), ConnState("Signalling")}
                                    \cup DisconnectedStates
      [] status = "Ready" -> {ConnState("Connecting"), ConnState("Signalling")}
                               \cup DisconnectedStates
      [] status = "Disconnected" -> {ConnState("Connecting")}
      [] OTHER -> {}

\* The connection reports Signalling, Connecting or Ready.
ConnStateChange ==
    /\ \E newState \in ConnEdges(conn.status) :
          /\ newState.status # "Disconnected"
          /\ CommitAll(SetConnState(CurAll, newState))
    /\ UNCHANGED <<nextRef, pauses>>

\* The connection reports Disconnected.
ConnDisconnect ==
    /\ disconnects < MaxDisconnects
    /\ \E newState \in ConnEdges(conn.status) :
          /\ newState.status = "Disconnected"
          /\ CommitAll(SetConnState(CurAll, newState))
    /\ UNCHANGED <<nextRef, pauses>>

\* The 5 s wait for Connecting times out.
GraceTimeout ==
    /\ \E i \in 1..Len(waits) :
          /\ waits[i].kind = "grace"
          /\ waits[i].left = 0
          /\ CommitAll(AfterGrace([CurAll EXCEPT !.waits = RemoveAt(@, i)], waits[i]))
    /\ UNCHANGED <<nextRef, pauses>>

\* The backoff wait ends.
BackoffElapsed ==
    /\ \E i \in 1..Len(waits), sent \in BOOLEAN :
          /\ waits[i].kind = "backoff"
          /\ waits[i].left = 0
          /\ ~sent => disconnects < MaxDisconnects
          /\ CommitAll(AfterBackoff([CurAll EXCEPT !.waits = RemoveAt(@, i)], waits[i], sent))
    /\ UNCHANGED <<nextRef, pauses>>

\* The 20 s wait for Ready times out.
ReadyTimeout ==
    /\ \E i \in 1..Len(waits) :
          /\ waits[i].kind = "ready"
          /\ waits[i].left = 0
          /\ CommitAll(AfterReadyBound([CurAll EXCEPT !.waits = RemoveAt(@, i)], waits[i]))
    /\ UNCHANGED <<nextRef, pauses>>

\* Time passes: no timer is overdue.  Timers due at the same instant fire in
\* either order, and a state change may come before a timer that is due.
Tick ==
    /\ waits # <<>>
    /\ \A i \in 1..Len(waits) : waits[i].left > 0
    /\ waits' = [i \in 1..Len(waits) |-> [waits[i] EXCEPT !.left = @ - TickMs]]
    /\ UNCHANGED <<sessVars, readyLock, conn, rejoinAttempts, calls, disconnects,
                   nextRef, pauses>>

Init ==
    /\ queue = <<>>
    /\ queueLock = FALSE
    /\ player = IdleState
    /\ readyLock = FALSE
    /\ conn = ConnState("Signalling")
    /\ rejoinAttempts \in 0..MaxRejoinAttempts
    /\ waits = <<>>
    /\ emitted = <<>>
    /\ handoffs = <<>>
    /\ calls = <<>>
    /\ nextRef = 1
    /\ pauses = 0
    /\ disconnects = 0
    /\ stopCalls = 0
    /\ sinceStop = FALSE

\* The session: the caller, the audio player and a freshly joined connection
\* that is never disconnected (it becomes Ready, or the 20 s bound on
\* becoming Ready destroys it).
SessionInit == Init /\ rejoinAttempts = 0

SessionNext ==
    \/ Enqueue
    \/ Stop
    \/ PlayerReadable
    \/ PlayerBufferFail
    \/ PlayerFinish
    \/ PlayerError
    \/ PlayerAutoPause
    \/ PlayerAutoResume
    \/ ConnStateChange
    \/ ReadyTimeout
    \/ Tick

SessionSpec == SessionInit /\ [][SessionNext]_vars

\* The connection supervisor: the connection's state changes and the timers
\* of the handler's waits, with a caller that enqueues created Tracks.
SupervisorNext ==
    \/ EnqueueCreated
    \/ ConnStateChange
    \/ ConnDisconnect
    \/ GraceTimeout
    \/ BackoffElapsed
    \/ ReadyTimeout
    \/ Tick

SupervisorSpec == Init /\ [][SupervisorNext]_vars

\* The queue while nobody calls stop() and the connection is not destroyed:
\* the caller enqueues, the player works through its resources and the
\* connection changes state. Each resource the player holds comes to an end
\* (its stream finishes, fails while buffering, or errors).
QueueNext ==
    \/ Enqueue
    \/ PlayerReadable
    \/ PlayerBufferFail
    \/ PlayerFinish
    \/ PlayerError
    \/ PlayerAutoPause
    \/ PlayerAutoResume
    \/ ConnStateChange

PlayerReturnsToIdle == PlayerBufferFail \/ PlayerFinish \/ PlayerError

QueueSpec ==
    SessionInit /\ [][QueueNext]_vars /\ WF_vars(PlayerReturnsToIdle)

\* ------------------------------------------------------------------ claims
\* The items of the audioPlayer.play calls, in call order.
HandedOff == [i \in 1..Len(handoffs) |-> handoffs[i].item]

\* The request contexts of the queued Tracks, head first.
Queued == [i \in 1..Len(queue) |-> queue[i].reference]

\* The positions of the notifications of a given name.
Notified(name) == { i \in 1..Len(emitted) : emitted[i].name = name }

NoFailure == Notified("playingError") = {}

\* C1: as long as no hand-off has failed and stop() has not been called, the
\* items handed to the player followed by the items still queued are the
\* enqueued items 1, 2, ... in enqueue order: nothing is skipped, duplicated
\* or played ahead of an earlier item.
C1_FifoOrder ==
    (NoFailure /\ stopCalls = 0) =>
        HandedOff \o Queued = [i \in 1..(nextRef - 1) |-> i]

\* Three items were enqueued and all three handed to the player, with
\* enqueues arriving while an earlier item was playing.
C1_Witness ==
    /\ NoFailure
    /\ stopCalls = 0
    /\ Len(handoffs) = MaxTracks
    /\ Notified("songStarted") # {}

\* C2: every audioPlayer.play call is issued with the player Idle.
C2_PlayOnlyWhenIdle ==
    \A i \in 1..Len(handoffs) : handoffs[i].before = "Idle"

\* An item is waiting in the queue while another one is playing, after an
\* earlier item has already been played.
C2_Witness ==
    /\ Len(handoffs) >= 2
    /\ player.status \in {"Buffering", "Playing", "AutoPaused"}
    /\ queue # <<>>

\* C3: a failed item is out of the queue for good and was not played; with
\* stop() not called, the lock is free after every drain, every enqueued item
\* is queued, handed off or failed (one item leaves the queue per failure),
\* and an idle player means an empty queue (the drain went on to the next
\* item); playingError for an item comes before songStarted for any item
\* enqueued after it.
C3_FailureDoesNotBlock ==
    /\ \A i \in Notified("playingError") :
          /\ \A k \in 1..Len(queue) : queue[k].reference # emitted[i].item
          /\ \A k \in 1..Len(handoffs) : handoffs[k].item # emitted[i].item
          /\ \A j \in Notified("playingError") : emitted[j].item = emitted[i].item => j = i
          /\ \A j \in Notified("songStarted") : emitted[i].item < emitted[j].item => i < j
    /\ stopCalls = 0 =>
          /\ ~queueLock
          /\ Len(queue) + Len(handoffs) + Cardinality(Notified("playingError")) = nextRef - 1
          /\ player.status = "Idle" => queue = <<>>

\* Item 1 failed its hand-off and item 2, enqueued behind it while item 1 was
\* still queued or right after, started playing.
C3_Witness ==
    /\ \E i \in Notified("playingError") : emitted[i].item = 1
    /\ \E j \in Notified("songStarted") : emitted[j].item = 2
    /\ stopCalls = 0

\* C4: every playingError notification carries the request context of the
\* item whose hand-off failed.
C4_ErrorCarriesContext ==
    \A i \in Notified("playingError") : emitted[i].reference = emitted[i].item

\* The songStarted and songEnded notifications emitted so far.
StartedOrEnded(log) ==
    { i \in 1..Len(log) : log[i].name \in {"songStarted", "songEnded"} }

\* C5: from stop() until the next enqueue the queue is empty and the player
\* Idle, and no step in that span emits songStarted or songEnded.
C5_StopSilences ==
    /\ [](sinceStop => (queue = <<>> /\ player.status = "Idle"))
    /\ [][(sinceStop /\ sinceStop') => StartedOrEnded(emitted') = StartedOrEnded(emitted)]_vars

\* stop() was called with an item in the player (its songEnded is the last
\* notification) and at least one enqueued item never reached the player.
C5_Witness ==
    /\ sinceStop
    /\ emitted # <<>>
    /\ emitted[Len(emitted)].name = "songEnded"
    /\ Len(handoffs) + Cardinality(Notified("playingError")) < nextRef - 1

\* The positions of the rejoin() or destroy() calls.
Calls(op) == { i \in 1..Len(calls) : calls[i].op = op }

\* A Disconnected state change that is a WebSocket close with code 4014.
KickClose(state) ==
    /\ state.status = "Disconnected"
    /\ state.reason = "WebSocketClose"
    /\ state.closeCode = 4014

\* A Disconnected state change that is anything else.
OtherDisconnect(state) == state.status = "Disconnected" /\ ~KickClose(state)

\* The waits of a kind that are pending.
Pending(kind) == { i \in 1..Len(waits) : waits[i].kind = kind }

\* C6: after a 4014 close, destroy() is issued only when the 5000 ms have
\* passed without Connecting, and then it is the only destroy() issued on the
\* connection, whatever else is pending.
C6_KickDestroysOnce ==
    \A i \in 1..Len(calls) :
        calls[i].src = "grace" =>
            /\ calls[i].op = "destroy"
            /\ KickClose(calls[i].cause)
            /\ calls[i].waited = 5000
            /\ \A j \in Calls("destroy") : j = i

\* C7: a Disconnected state change that is not a 4014 close, handled with the
\* rejoin-attempt counter at n: for n in 0..4 the handler waits (n+1) x 5000
\* ms and then issues rejoin(), and no destroy(); for n >= 5 it issues
\* destroy() at once, and no rejoin().
C7_BackoffThenRejoin ==
    /\ [](\A i \in Pending("backoff") :
            /\ OtherDisconnect(waits[i].cause)
            /\ waits[i].n \in 0..4
            /\ waits[i].dur = (waits[i].n + 1) * 5000)
    /\ [](\A i \in 1..Len(calls) :
            /\ calls[i].op = "rejoin" <=> calls[i].src = "backoff"
            /\ calls[i].src = "backoff" =>
                  /\ OtherDisconnect(calls[i].cause)
                  /\ calls[i].n \in 0..4
                  /\ calls[i].waited = (calls[i].n + 1) * 5000
            /\ calls[i].src = "giveup" =>
                  /\ OtherDisconnect(calls[i].cause)
                  /\ calls[i].n >= 5
                  /\ calls[i].waited = 0)
    /\ [][disconnects' = disconnects + 1 =>
            \/ /\ Len(waits') > 0
               /\ waits'[Len(waits')].kind = "grace"
               /\ KickClose(waits'[Len(waits')].cause)
            \/ /\ Len(waits') > 0
               /\ waits'[Len(waits')].kind = "backoff"
               /\ waits'[Len(waits')].left = waits'[Len(waits')].dur
               /\ waits'[Len(waits')].n = rejoinAttempts'
               /\ Calls("destroy")' = Calls("destroy")
            \/ /\ Len(calls') > 0
               /\ calls'[Len(calls')].src = "giveup"
               /\ calls'[Len(calls')].n = rejoinAttempts'
               /\ Pending("backoff")' \subseteq 1..Len(waits)]_vars

\* rejoin() was issued 25000 ms after a Disconnected state change handled
\* with the counter at 4.
C7_Witness ==
    \E i \in Calls("rejoin") : calls[i].n = 4 /\ calls[i].waited = 25000

\* C8: the 20 s bound on becoming Ready issues destroy() only at its expiry,
\* 20000 ms after it started, at most once, and never on a connection that is
\* already Destroyed; a bound that expires on a connection not yet Destroyed
\* does issue it, and when that step is over the connection is Destroyed, the
\* queue is empty, the queue is locked and the player is Idle.
C8_ReadyBoundDestroys ==
    /\ [](\A i \in 1..Len(calls) :
            calls[i].src = "ready" =>
                /\ calls[i].op = "destroy"
                /\ calls[i].waited = 20000
                /\ calls[i].status # "Destroyed"
                /\ calls[i].cause.status \in {"Connecting", "Signalling"}
                /\ \A j \in 1..Len(calls) : calls[j].src = "ready" => j = i)
    /\ [][(Cardinality(Pending("ready")') < Cardinality(Pending("ready"))
             /\ conn'.status # "Ready") =>
            IF conn.status = "Destroyed"
            THEN calls' = calls
            ELSE /\ Len(calls') = Len(calls) + 1
                 /\ calls'[Len(calls')].src = "ready"
                 /\ conn'.status = "Destroyed"
                 /\ queue' = <<>>
                 /\ queueLock'
                 /\ player'.status = "Idle"]_vars

\* The bound expired with an item in the player and another one queued: the
\* connection is destroyed and the session stopped.
C8_Witness ==
    /\ calls # <<>>
    /\ calls[Len(calls)].src = "ready"
    /\ nextRef > 2
    /\ sinceStop
    /\ emitted # <<>>
    /\ emitted[Len(emitted)].name = "songEnded"
    /\ conn.status = "Destroyed"

\* C9: destroy() is issued at most once.
C9_DestroyAtMostOnce == Cardinality(Calls("destroy")) <= 1

\* C10: no rejoin() or destroy() is issued on a connection that has reported
\* Destroyed.
C10_DestroyedIsTerminal ==
    \A i \in 1..Len(calls) : calls[i].status # "Destroyed"

\* The enqueued items that neither reached the player nor failed.
NeverAttempted ==
    { k \in 1..(nextRef - 1) :
        /\ \A i \in 1..Len(handoffs) : handoffs[i].item # k
        /\ \A i \in Notified("playingError") : emitted[i].item # k }

\* C11: the step in which the connection becomes Destroyed leaves the queue
\* empty, the lock set and the player Idle, hands nothing to the player and
\* counts as a stop(); and once the connection is Destroyed no item is handed
\* to the player any more.
C11_DestroyedStops ==
    /\ [][(conn'.status = "Destroyed" /\ conn.status # "Destroyed") =>
            /\ queue' = <<>>
            /\ queueLock'
            /\ player'.status = "Idle"
            /\ handoffs' = handoffs
            /\ stopCalls' = stopCalls + 1]_vars
    /\ [][conn.status = "Destroyed" => handoffs' = handoffs]_vars

\* The connection was destroyed with an item in the player and another one
\* queued; an item enqueued afterwards is waiting too.
C11_Witness ==
    /\ conn.status = "Destroyed"
    /\ stopCalls = 1
    /\ Len(handoffs) = 1
    /\ NeverAttempted = {2, 3}
    /\ queue # <<>>
    /\ emitted[Len(emitted)].name = "songEnded"

\* C12: a stop() right after a stop() (no enqueue in between) changes neither
\* the queue, the lock, the player nor the notifications and hand-offs.
C12_StopIdempotent ==
    [][(sinceStop /\ stopCalls' = stopCalls + 1) =>
          UNCHANGED <<queue, queueLock, player, emitted, handoffs>>]_vars

\* One item was enqueued and handed to the player, then stop() ran twice.
C12_Witness ==
    /\ nextRef = 2
    /\ Len(handoffs) = 1
    /\ stopCalls = 2
    /\ sinceStop

\* C13: when an item has been enqueued since the last stop() and the player
\* is Idle, the drain the enqueue triggered has left nothing waiting: the item
\* was handed to the player (or failed its hand-off).
C13_EnqueueAfterStopPlays ==
    (stopCalls > 0 /\ ~sinceStop /\ player.status = "Idle") => queue = <<>>

\* C14: between handler runs no drain is executing, and the lock is free.
C14_LockOnlyWhileDraining == ~queueLock

\* The calls the ready bound's catch made.
ReadyCalls(log) == { i \in 1..Len(log) : log[i].src = "ready" }

\* C15: a connection that becomes Ready while the ready bound is pending ends
\* the bound with the lock released and no call made; a bound that goes away
\* by expiring leaves the lock released too; a call from the bound's catch is
\* made only by a bound that ran out; and the lock is never set without a
\* pending bound.
C15_ReadyInTimeNoDestroy ==
    /\ [][(conn'.status = "Ready" /\ conn.status # "Ready" /\ Pending("ready") # {}) =>
            /\ Pending("ready")' = {}
            /\ ~readyLock'
            /\ calls' = calls]_vars
    /\ [][(Pending("ready") # {} /\ Pending("ready")' = {}) => ~readyLock']_vars
    /\ [][ReadyCalls(calls') # ReadyCalls(calls) =>
            /\ conn.status # "Ready"
            /\ \E i \in Pending("ready") : waits[i].left = 0]_vars
    /\ [](readyLock => Pending("ready") # {})

\* The connection became Ready while the ready bound that Connecting started
\* was pending: the bound is gone, the lock is free, nothing was destroyed.
C15_Witness ==
    /\ conn.status = "Ready"
    /\ ~readyLock
    /\ Pending("ready") = {}
    /\ calls = <<>>
    /\ disconnects = 0

\* The grace and backoff waits of a log that have just been started.
FreshWaits(log) ==
    { i \in 1..Len(log) : log[i].kind \in {"grace", "backoff"} /\ log[i].left = log[i].dur }

\* C16: never more than one ready bound is pending, and readyLock is set
\* exactly when one is; with the lock held, a Disconnected event still starts
\* its wait (or gives up) and a Destroyed event still stops the session.
C16_OneReadyBound ==
    /\ [](/\ Cardinality(Pending("ready")) <= 1
          /\ readyLock <=> Cardinality(Pending("ready")) = 1)
    /\ [][(readyLock /\ disconnects' = disconnects + 1) =>
            \/ Cardinality(FreshWaits(waits')) = Cardinality(FreshWaits(waits)) + 1
            \/ Calls("destroy")' # Calls("destroy")]_vars
    /\ [][(readyLock /\ conn'.status = "Destroyed" /\ conn.status # "Destroyed") =>
            stopCalls' = stopCalls + 1]_vars

\* With the lock held by the bound that Connecting started, the connection
\* was disconnected and rejoined into Signalling: still one bound.
C16_Witness ==
    /\ readyLock
    /\ conn.status = "Signalling"
    /\ Calls("rejoin") # {}
    /\ \E i \in Pending("ready") : waits[i].cause.status = "Connecting"

\* C17: a step that emits criticalError emits it with the context of the
\* item the player was last handed, followed at once by that item's
\* songEnded; the item is not queued again nor handed over again, and the
\* drain goes on: either the queue is used up, or exactly one of the items
\* that were waiting has been handed to the now buffering player. No item
\* reported by criticalError is ever queued or handed over twice.
C17_CriticalErrorAbandons ==
    /\ [][Notified("criticalError")' # Notified("criticalError") =>
            LET it == handoffs[Len(handoffs)].item
                e == emitted'[Len(emitted) + 1]
                ended == emitted'[Len(emitted) + 2]
            IN /\ e = [name |-> "criticalError", reference |-> it, item |-> it]
               /\ ended = [name |-> "songEnded", reference |-> it, item |-> it]
               /\ \A i \in 1..Len(queue') : queue'[i].reference # it
               /\ \A i \in (Len(handoffs) + 1)..Len(handoffs') : handoffs'[i].item # it
               /\ \/ queue' = <<>>
                  \/ /\ player'.status = "Buffering"
                     /\ Len(handoffs') = Len(handoffs) + 1
                     /\ \E i \in 1..Len(queue) :
                          queue[i].reference = handoffs'[Len(handoffs')].item]_vars
    /\ [](\A i \in Notified("criticalError") :
            /\ \A j \in 1..Len(queue) : queue[j].reference # emitted[i].item
            /\ Cardinality({ j \in 1..Len(handoffs) :
                               handoffs[j].item = emitted[i].item }) = 1)

\* Item 1 errored in the player with items waiting; item 2 is buffering, item
\* 3 still queued, and the last notifications are item 1's criticalError and
\* songEnded.
C17_Witness ==
    /\ Len(emitted) >= 2
    /\ emitted[Len(emitted) - 1] = [name |-> "criticalError", reference |-> 1, item |-> 1]
    /\ emitted[Len(emitted)] = [name |-> "songEnded", reference |-> 1, item |-> 1]
    /\ HandedOff = <<1, 2>>
    /\ Queued = <<3>>
    /\ player.status = "Buffering"

\* C18: every songEnded of an item comes after a songStarted of that item,
\* and no item has two songStarted notifications.
C18_StartedBeforeEnded ==
    /\ \A i \in Notified("songEnded") :
         \E j \in Notified("songStarted") : j < i /\ emitted[j].item = emitted[i].item
    /\ \A i, j \in Notified("songStarted") :
         emitted[i].item = emitted[j].item => i = j

\* C19: in every state where the lock is set, the queue is empty or the
\* player is not Idle, a drain attempt returns the session as it found it
\* (queue, lock, player, notifications and hand-offs); accordingly an enqueue
\* made while the lock is set or the player is busy only appends its Track,
\* and a player that goes Idle over an empty queue is handed nothing.
C19_BlockedDrainIsNoOp ==
    /\ []((queueLock \/ Len(queue) = 0 \/ player.status # "Idle") =>
            processQueue(Cur) = Cur)
    /\ [][(nextRef' = nextRef + 1 /\ (queueLock \/ player.status # "Idle")) =>
            /\ Len(queue') = Len(queue) + 1
            /\ SubSeq(queue', 1, Len(queue)) = queue
            /\ UNCHANGED <<queueLock, player, emitted, handoffs>>]_vars
    /\ [][(player.status # "Idle" /\ player'.status = "Idle" /\ Len(queue) = 0) =>
            /\ queue' = <<>>
            /\ handoffs' = handoffs
            /\ Notified("playingError")' = Notified("playingError")]_vars

\* An enqueue made with the lock set and the player Idle: its Track waits.
C19_Witness ==
    /\ queueLock
    /\ player.status = "Idle"
    /\ ~sinceStop
    /\ Len(queue) = 2
    /\ handoffs = <<>>

\* C20: with no stop() and a player that returns to Idle after each item,
\* every enqueued item is eventually handed to the player or reported by
\* playingError; a step that reports failed hand-offs ends with the lock
\* released and none of the failed items queued; and an Idle player leaves
\* nothing waiting.
C20_QueueAdvances ==
    /\ \A k \in 1..MaxTracks :
         (nextRef > k) ~> (k \notin NeverAttempted)
    /\ [][Notified("playingError")' # Notified("playingError") =>
            /\ ~queueLock'
            /\ \A i \in Notified("playingError")' \ Notified("playingError") :
                 \A j \in 1..Len(queue') : queue'[j].reference # emitted'[i].item]_vars
    /\ [](player.status = "Idle" => (queue = <<>> /\ ~queueLock))

\* Item 1 went through the player, items 2 and 3 failed their hand-off one
\* after the other right after item 1's songEnded; the queue is empty, the
\* lock free.
C20_Witness ==
    /\ HandedOff = <<1>>
    /\ Len(emitted) >= 3
    /\ emitted[Len(emitted) - 2].name = "songEnded"
    /\ emitted[Len(emitted) - 1].name = "playingError"
    /\ emitted[Len(emitted) - 1].item = 2
    /\ emitted[Len(emitted)].name = "playingError"
    /\ emitted[Len(emitted)].item = 3
    /\ queue = <<>>
    /\ ~queueLock
    /\ player.status = "Idle"

====
